---- MODULE Spec2Model ----
(***************************************************************************)
(* A model of ttod (src/todo.py), a curses todo list.                      *)
(*                                                                         *)
(* Python values.  A str is a sequence of one-character strings, so that   *)
(* parsing is computed character by character.  None is a value outside    *)
(* str.  List indices and the cursor are 0-based as in the program; a      *)
(* Python list l is a sequence s with l[i] = s[i + 1].                     *)
(*                                                                         *)
(* Time.  An instant is a whole number of ticks since 0001-01-01 00:00     *)
(* shifted by one day (instant = ordinal * TicksPerDay + tick of day,      *)
(* where ordinal is Python's date.toordinal()).  datetime.now() returns    *)
(* the variable now.                                                       *)
(***************************************************************************)
EXTENDS Integers, Sequences, FiniteSets, TLC

VARIABLES
    file,            \* the contents of ~/.vim_todo.json
    todos,           \* TodoList.todos
    cursor_pos,      \* TodoList.cursor_pos
    days_mode,       \* main: days_mode
    sorted_by_days,  \* main: sorted_by_days
    frame,           \* the storage index of the task drawn on each row of the screen
    idx,             \* main: idx, the list indexed by the cursor on dispatch
    now,             \* the clock read by datetime.now()
    pc,              \* where the program is
    result,          \* the value returned by a function called on its own
    last,            \* the last operation or key handled, with its inputs
    built            \* the store began empty and has only been changed by its methods

vars == <<file, todos, cursor_pos, days_mode, sorted_by_days, frame, idx, now, pc,
          result, last, built>>

----------------------------------------------------------------------------
(* Bounds of the model. *)

MaxTodos == 2
MaxNow == 2
TicksPerDay == 2

\* The longest list given to the sort on its own.
MaxSortLen == 4

\* The dates 2025-01-01 .. 2025-01-MaxJanDay and the strings "in 0 days" ..
\* "in MaxInDays days" given to the parser and the classifier on their own.
MaxJanDay == 12
MaxInDays == 10

\* popup_w = min(60, width - 4) of the popup, for a narrow terminal.
PopupW == 5

----------------------------------------------------------------------------
(* Python values. *)

None == <<"None">>

Truthy(v) == v # None /\ v # <<>>

\* The element of a one-element set.  { e(v) : v \in {x} } evaluates x once,
\* however often e uses v.
The(S) == CHOOSE x \in S : TRUE

Max(a, b) == IF a >= b THEN a ELSE b

Min(a, b) == IF a <= b THEN a ELSE b

Digits == {"0", "1", "2", "3", "4", "5", "6", "7", "8", "9"}

DigitVal(c) ==
    CASE c = "0" -> 0 [] c = "1" -> 1 [] c = "2" -> 2 [] c = "3" -> 3
      [] c = "4" -> 4 [] c = "5" -> 5 [] c = "6" -> 6 [] c = "7" -> 7
      [] c = "8" -> 8 [] c = "9" -> 9

IsDigits(s) == Len(s) > 0 /\ \A i \in 1..Len(s) : s[i] \in Digits

ToNat(s) ==
    LET V[i \in 0..Len(s)] == IF i = 0 THEN 0 ELSE 10 * V[i - 1] + DigitVal(s[i])
    IN  V[Len(s)]

RECURSIVE StripZeros(_)
StripZeros(s) ==
    IF Len(s) > 1 /\ s[1] = "0" THEN StripZeros(Tail(s)) ELSE s

StartsWith(s, p) == Len(s) >= Len(p) /\ SubSeq(s, 1, Len(p)) = p

\* s.split(c) for a one-character separator c: the fields between the separators.
SplitOn(s, c) ==
    The({ LET Sep(k) == IF k = 0 THEN 0
                        ELSE IF k = Cardinality(seps) + 1 THEN Len(s) + 1
                        ELSE CHOOSE i \in seps : Cardinality({j \in seps : j < i}) = k - 1
          IN  [k \in 1..(Cardinality(seps) + 1) |-> SubSeq(s, Sep(k - 1) + 1, Sep(k) - 1)]
          : seps \in {{i \in 1..Len(s) : s[i] = c}} })

\* s.split(): the maximal runs of non-blank characters.
WhitespaceSplit(s) == SelectSeq(SplitOn(s, " "), LAMBDA f : f # <<>>)

----------------------------------------------------------------------------
(* The proleptic Gregorian calendar of datetime. *)

IsLeap(y) == y % 4 = 0 /\ (y % 100 # 0 \/ y % 400 = 0)

DaysInMonth(y, m) ==
    CASE m \in {1, 3, 5, 7, 8, 10, 12} -> 31
      [] m \in {4, 6, 9, 11} -> 30
      [] OTHER -> IF IsLeap(y) THEN 29 ELSE 28

DaysBeforeYear(y) ==
    LET p == y - 1 IN p * 365 + (p \div 4) - (p \div 100) + (p \div 400)

RECURSIVE DaysBeforeMonth(_, _)
DaysBeforeMonth(y, m) ==
    IF m = 1 THEN 0 ELSE DaysBeforeMonth(y, m - 1) + DaysInMonth(y, m - 1)

Ordinal(y, m, d) == DaysBeforeYear(y) + DaysBeforeMonth(y, m) + d

MaxOrdinal == Ordinal(9999, 12, 31)

\* datetime(y, m, d, 0, 0): midnight at the start of the day.
Midnight(y, m, d) == Ordinal(y, m, d) * TicksPerDay

OrdinalOf(t) == t \div TicksPerDay

YearOf(t) ==
    LET o == OrdinalOf(t)
        est == (o \div 365) + 1
    IN  CHOOSE y \in (est - 8)..(est + 1) :
            DaysBeforeYear(y) < o /\ o <= DaysBeforeYear(y + 1)

\* (a - b).days: timedelta normalises to whole days rounded toward minus infinity.
DeltaDays(a, b) == (a - b) \div TicksPerDay

----------------------------------------------------------------------------
(* parse_deadline.  The result is None, a datetime, or an exception that   *)
(* the function does not catch.                                            *)

NoDatetime == [kind |-> "None", t |-> 0]

Datetime(t) == [kind |-> "datetime", t |-> t]

Overflow == [kind |-> "OverflowError", t |-> 0]

\* The directives of _strptime: %Y is \d\d\d\d, %m is 1[0-2]|0[1-9]|[1-9],
\* %d is 3[01]|[12]\d|0[1-9]|[1-9]| [1-9]; the whole string must match.
YearField(f) == Len(f) = 4 /\ IsDigits(f)

MonthField(f) ==
    \/ Len(f) = 1 /\ f[1] \in Digits \ {"0"}
    \/ Len(f) = 2 /\ IsDigits(f) /\ ToNat(f) \in 1..12

DayField(f) ==
    \/ Len(f) = 1 /\ f[1] \in Digits \ {"0"}
    \/ Len(f) = 2 /\ IsDigits(f) /\ ToNat(f) \in 1..31
    \/ Len(f) = 2 /\ f[1] = " " /\ f[2] \in Digits \ {"0"}

DayVal(f) == IF f[1] = " " THEN DigitVal(f[2]) ELSE ToNat(f)

NoDate == [ok |-> FALSE, y |-> 0, m |-> 0, d |-> 0]

\* datetime.strptime(s, "%Y-%m-%d"); ok is FALSE where it raises ValueError.
StrptimeYMD(s) ==
    The({
    IF Len(f) = 3 /\ YearField(f[1]) /\ MonthField(f[2]) /\ DayField(f[3])
    THEN LET y == ToNat(f[1])
             m == ToNat(f[2])
             d == DayVal(f[3])
         IN  IF y >= 1 /\ d <= DaysInMonth(y, m)
             THEN [ok |-> TRUE, y |-> y, m |-> m, d |-> d]
             ELSE NoDate
    ELSE NoDate
    : f \in {SplitOn(s, "-")} })

\* datetime.strptime(s, "%m-%d"): the year defaults to 1900.
StrptimeMD(s) ==
    The({
    IF Len(f) = 2 /\ MonthField(f[1]) /\ DayField(f[2])
    THEN LET m == ToNat(f[1])
             d == DayVal(f[2])
         IN  IF d <= DaysInMonth(1900, m)
             THEN [ok |-> TRUE, y |-> 1900, m |-> m, d |-> d]
             ELSE NoDate
    ELSE NoDate
    : f \in {SplitOn(s, "-")} })

\* int(tok); ok is FALSE where it raises ValueError.  big: the magnitude is
\* above 999999999, which timedelta(days=...) rejects with OverflowError.
IntOf(tok) ==
    LET signed == Len(tok) > 0 /\ tok[1] \in {"+", "-"}
        body == IF signed THEN Tail(tok) ELSE tok
        digits == StripZeros(body)
    IN  IF ~IsDigits(body) THEN [ok |-> FALSE, big |-> FALSE, n |-> 0]
        ELSE IF Len(digits) > 9 THEN [ok |-> TRUE, big |-> TRUE, n |-> 0]
        ELSE [ok |-> TRUE, big |-> FALSE,
              n |-> IF signed /\ tok[1] = "-" THEN 0 - ToNat(digits) ELSE ToNat(digits)]

\* The third form, "in X days"; clk is the value of datetime.now().
ParseRelative(s, clk) ==
    IF ~StartsWith(s, <<"i", "n", " ">>) THEN NoDatetime
    ELSE The({
         IF toks = <<>> THEN NoDatetime
         ELSE The({
              IF ~i.ok THEN NoDatetime
              ELSE IF i.big THEN Overflow
              ELSE IF OrdinalOf(clk) + i.n < 1 \/ OrdinalOf(clk) + i.n > MaxOrdinal
                   THEN Overflow
              ELSE Datetime(clk + i.n * TicksPerDay)
              : i \in {IntOf(toks[1])} })
         : toks \in {WhitespaceSplit(SubSeq(s, 4, Len(s)))} })

parse_deadline(deadline_str, clk) ==
    IF ~Truthy(deadline_str) THEN NoDatetime
    ELSE The({
         IF ymd.ok THEN Datetime(Midnight(ymd.y, ymd.m, ymd.d))
         ELSE IF md.ok THEN Datetime(Midnight(YearOf(clk), md.m, md.d))
         ELSE ParseRelative(deadline_str, clk)
         : ymd \in {StrptimeYMD(deadline_str)}, md \in {StrptimeMD(deadline_str)} })

\* get_deadline_color.  clk is the clock while the deadline is parsed, later
\* the value of datetime.now() read after it on line 108.
get_deadline_color_NoSoon(deadline_str, clk, later) ==
    The({
    IF deadline.kind = "OverflowError" THEN "OverflowError"
    ELSE IF deadline.kind = "None" THEN "COLOR_WHITE"
    ELSE IF DeltaDays(deadline.t, later) < 0 THEN "COLOR_RED"
    ELSE IF DeltaDays(deadline.t, later) <= 2 THEN "COLOR_YELLOW"
    ELSE "COLOR_GREEN"
    : deadline \in {parse_deadline(deadline_str, clk)} })

get_deadline_color(deadline_str, clk, later) ==
    The({
    IF deadline.kind = "OverflowError" THEN "OverflowError"
    ELSE IF deadline.kind = "None" THEN "COLOR_WHITE"
    ELSE IF DeltaDays(deadline.t, later) < 0 THEN "COLOR_RED"
    ELSE IF DeltaDays(deadline.t, later) <= 2 THEN "COLOR_YELLOW"
    ELSE IF DeltaDays(deadline.t, later) <= 7 THEN "COLOR_CYAN"
    ELSE "COLOR_GREEN"
    : deadline \in {parse_deadline(deadline_str, clk)} })

----------------------------------------------------------------------------
(* TodoItem and its JSON form.  A JSON value is a record: j is its type,   *)
(* s the characters of a string or number, items the items of an array,    *)
(* o the members of an object in the order written.                        *)

TodoItem(text, done, deadline) ==
    [text |-> text, done |-> done,
     deadline |-> IF Truthy(deadline) THEN deadline ELSE None]

to_dict(todo) == [text |-> todo.text, done |-> todo.done, deadline |-> todo.deadline]

JValue(j, s, items, o) == [j |-> j, s |-> s, items |-> items, o |-> o]

JNull == JValue("null", <<>>, <<>>, <<>>)

JString(s) == JValue("string", s, <<>>, <<>>)

JBool(b) == JValue(IF b THEN "true" ELSE "false", <<>>, <<>>, <<>>)

JNumber(digits) == JValue("number", digits, <<>>, <<>>)

JArray(items) == JValue("array", <<>>, items, <<>>)

JObject(members) == JValue("object", <<>>, <<>>, members)

Member(k, val) == [k |-> k, val |-> val]

HasKey(obj, k) == \E i \in 1..Len(obj.o) : obj.o[i].k = k

Lookup(obj, k) == obj.o[CHOOSE i \in 1..Len(obj.o) : obj.o[i].k = k].val

\* json.dump of a dict of to_dict: text is a str, done a bool, deadline a str or None.
JsonOfDict(d) ==
    JObject(<<Member("text", JString(d.text)),
              Member("done", JBool(d.done)),
              Member("deadline", IF d.deadline = None THEN JNull ELSE JString(d.deadline))>>)

\* json.load of a field: a string, a boolean or null.
PyOfField(jv) ==
    CASE jv.j = "null" -> None
      [] jv.j = "true" -> TRUE
      [] jv.j = "false" -> FALSE
      [] OTHER -> jv.s

\* The file: missing, unreadable (open raises PermissionError), undecodable (not
\* UTF-8), invalid (not JSON, as any truncated file is), or a JSON text.
FileOf(kind, json) == [kind |-> kind, json |-> json]

\* TodoItem.from_dict: data["text"], data["done"], data.get("deadline").
FromDictRaises(item) ==
    IF item.j # "object" THEN "TypeError"
    ELSE IF ~HasKey(item, "text") \/ ~HasKey(item, "done") THEN "KeyError"
    ELSE "none"

from_dict(item) ==
    TodoItem(PyOfField(Lookup(item, "text")), PyOfField(Lookup(item, "done")),
             IF HasKey(item, "deadline") THEN PyOfField(Lookup(item, "deadline")) ELSE None)

\* What "for item in data" iterates over, for a JSON value that can be iterated:
\* the items of an array, the keys of an object, the characters of a string.
Iterable(data) == data.j \in {"array", "object", "string"}

ItemsOf(data) ==
    CASE data.j = "array" -> data.items
      [] data.j = "object" -> [i \in 1..Len(data.o) |-> JString(<<data.o[i].k>>)]
      [] OTHER -> [i \in 1..Len(data.s) |-> JString(<<data.s[i]>>)]

\* The exception open() and json.load() end with, or "none".
ReadRaises(f) ==
    CASE f.kind = "missing" -> "FileNotFoundError"
      [] f.kind = "unreadable" -> "PermissionError"
      [] f.kind = "undecodable" -> "UnicodeDecodeError"
      [] f.kind = "invalid" -> "JSONDecodeError"
      [] OTHER -> "none"

\* The exception the list comprehension of load ends with, or "none".
DecodeRaises(data) ==
    IF ~Iterable(data) THEN "TypeError"
    ELSE The({ The({
             IF bad = {} THEN "none"
             ELSE FromDictRaises(items[CHOOSE i \in bad : \A k \in bad : i <= k])
             : bad \in {{i \in 1..Len(items) : FromDictRaises(items[i]) # "none"}} })
         : items \in {ItemsOf(data)} })

Caught == {"FileNotFoundError", "JSONDecodeError"}

\* TodoList.load: the todos it leaves and the exception it lets through.
load(self) ==
    The({
    IF r \in Caught THEN [self EXCEPT !.todos = <<>>, !.raised = "none"]
    ELSE IF r # "none" THEN [self EXCEPT !.raised = r]
    ELSE The({ [self EXCEPT !.todos = [i \in 1..Len(items) |-> from_dict(items[i])],
                            !.raised = "none"]
               : items \in {ItemsOf(self.file.json)} })
    : r \in {IF ReadRaises(self.file) # "none" THEN ReadRaises(self.file)
             ELSE DecodeRaises(self.file.json)} })

\* save that writes the tasks last first.
save_Reversed(self) ==
    [self EXCEPT !.file =
        FileOf("json", JArray([i \in 1..Len(self.todos) |->
                                 JsonOfDict(to_dict(self.todos[Len(self.todos) + 1 - i]))]))]

\* TodoList.save: the whole file is rewritten.
save(self) ==
    [self EXCEPT !.file =
        FileOf("json", JArray([i \in 1..Len(self.todos) |-> JsonOfDict(to_dict(self.todos[i]))]))]

\* TodoList.__init__.
NewTodoList(f) ==
    load([todos |-> <<>>, cursor_pos |-> 0, file |-> f, raised |-> "none"])

InBounds(self, index) == 0 <= index /\ index < Len(self.todos)

\* add that inserts the new task first instead of appending it.
add_Prepend(self, text, deadline) ==
    save([self EXCEPT !.todos = <<TodoItem(text, FALSE, deadline)>> \o @])

add(self, text, deadline) ==
    save([self EXCEPT !.todos = Append(@, TodoItem(text, FALSE, deadline))])

\* toggle without the lower bound: a negative index counts from the end.
toggle_NoLowerBound(self, index) ==
    IF index < Len(self.todos) /\ index + Len(self.todos) >= 0
    THEN LET i == IF index < 0 THEN index + Len(self.todos) ELSE index
         IN  save([self EXCEPT !.todos[i + 1].done = ~@])
    ELSE self

toggle(self, index) ==
    IF InBounds(self, index)
    THEN save([self EXCEPT !.todos[index + 1].done = ~@])
    ELSE self

\* pop() in place of del: the last item goes.
RemoveAt_Last(q, index) == SubSeq(q, 1, Len(q) - 1)

RemoveAt(q, index) == SubSeq(q, 1, index) \o SubSeq(q, index + 2, Len(q))

\* delete without the clamp of the cursor.
delete_NoClamp(self, index) ==
    IF InBounds(self, index)
    THEN save([self EXCEPT !.todos = RemoveAt(self.todos, index)])
    ELSE self

delete(self, index) ==
    IF InBounds(self, index)
    THEN LET rest == RemoveAt(self.todos, index)
             c == IF self.cursor_pos >= Len(rest)
                  THEN Max(0, Len(rest) - 1)
                  ELSE self.cursor_pos
         IN  save([self EXCEPT !.todos = rest, !.cursor_pos = c])
    ELSE self

\* edit that also clears the done flag.
edit_ResetsDone(self, index, new_text, new_deadline) ==
    IF InBounds(self, index)
    THEN save([self EXCEPT !.todos[index + 1] = TodoItem(new_text, FALSE, new_deadline)])
    ELSE self

\* edit without the save on line 51.
edit_NoSave(self, index, new_text, new_deadline) ==
    IF InBounds(self, index)
    THEN [self EXCEPT !.todos[index + 1].text = new_text,
                      !.todos[index + 1].deadline = new_deadline]
    ELSE self

edit(self, index, new_text, new_deadline) ==
    IF InBounds(self, index)
    THEN save([self EXCEPT !.todos[index + 1].text = new_text,
                           !.todos[index + 1].deadline = new_deadline])
    ELSE self

move_up(self) ==
    IF self.cursor_pos > 0 THEN [self EXCEPT !.cursor_pos = @ - 1] ELSE self

\* move_down that wraps from the last row to the first.
move_down_Wraps(self) ==
    IF self.cursor_pos < Len(self.todos) - 1
    THEN [self EXCEPT !.cursor_pos = @ + 1]
    ELSE [self EXCEPT !.cursor_pos = 0]

move_down(self) ==
    IF self.cursor_pos < Len(self.todos) - 1 THEN [self EXCEPT !.cursor_pos = @ + 1] ELSE self

\* The TodoList object and its file as one value, and back to the variables.
Self == [todos |-> todos, cursor_pos |-> cursor_pos, file |-> file, raised |-> "none"]

Becomes(after) ==
    \E self \in {after} :
        /\ todos' = self.todos
        /\ cursor_pos' = self.cursor_pos
        /\ file' = self.file

----------------------------------------------------------------------------
(* sort_todos_by_days and the rows of draw_todo_list.  clk is the value of *)
(* datetime.now() during the call.                                         *)

\* The tuple (priority, days) of a todo; days is float("inf") where inf is TRUE.
SortKey(todo, clk) ==
    IF ~Truthy(todo.deadline) THEN [priority |-> 1, inf |-> TRUE, days |-> 0]
    ELSE The({
         IF deadline.kind = "datetime"
         THEN [priority |-> IF ~todo.done THEN 2 ELSE 0, inf |-> FALSE,
               days |-> DeltaDays(deadline.t, clk)]
         ELSE [priority |-> 1, inf |-> TRUE, days |-> 0]
         : deadline \in {parse_deadline(todo.deadline, clk)} })

DaysLess(a, b) == IF a.inf THEN FALSE ELSE (b.inf \/ a.days < b.days)

\* The keys ordered by ascending priority.
KeyLess_Ascending(a, b) ==
    \/ a.priority < b.priority
    \/ a.priority = b.priority /\ DaysLess(a, b)

\* The order of the keys (-x[0], x[1]).
KeyLess(a, b) ==
    \/ 0 - a.priority < 0 - b.priority
    \/ a.priority = b.priority /\ DaysLess(a, b)

\* An insertion that is not stable: an item goes before the first item whose
\* key is not smaller.
InsertStable_BeforeEquals(sorted, x) ==
    The({ The({ SubSeq(sorted, 1, at - 1) \o <<x>> \o SubSeq(sorted, at, Len(sorted))
                : at \in {IF notless = {} THEN Len(sorted) + 1
                          ELSE CHOOSE i \in notless : \A k \in notless : i <= k} })
          : notless \in {{i \in 1..Len(sorted) : ~KeyLess(sorted[i].key, x.key)}} })

\* list.sort is stable: an item goes before the first item with a greater key.
InsertStable(sorted, x) ==
    The({ The({ SubSeq(sorted, 1, at - 1) \o <<x>> \o SubSeq(sorted, at, Len(sorted))
                : at \in {IF greater = {} THEN Len(sorted) + 1
                          ELSE CHOOSE i \in greater : \A k \in greater : i <= k} })
          : greater \in {{i \in 1..Len(sorted) : KeyLess(x.key, sorted[i].key)}} })

SortStable(q) ==
    LET S[n \in 0..Len(q)] ==
            IF n = 0 THEN <<>>
            ELSE The({ InsertStable(sorted, q[n]) : sorted \in {S[n - 1]} })
    IN  S[Len(q)]

\* An exception of parse_deadline gets through sort_todos_by_days and draw_todo_list.
ParseRaises(q, clk) ==
    \E i \in 1..Len(q) :
        Truthy(q[i].deadline) /\ parse_deadline(q[i].deadline, clk).kind = "OverflowError"

\* A projection that pairs each task with its display position.
sort_todos_by_days_Position(q, clk) ==
    The({ The({ [i \in 1..Len(q) |-> <<sorted_todos[i].todo, i - 1>>]
                : sorted_todos \in {SortStable(keyed)} })
          : keyed \in {[i \in 1..Len(q) |->
                          [key |-> SortKey(q[i], clk), todo |-> q[i], idx |-> i - 1]]} })

\* The list of (todo, original index).
sort_todos_by_days(q, clk) ==
    The({ The({ [i \in 1..Len(q) |-> <<sorted_todos[i].todo, sorted_todos[i].idx>>]
                : sorted_todos \in {SortStable(keyed)} })
          : keyed \in {[i \in 1..Len(q) |->
                          [key |-> SortKey(q[i], clk), todo |-> q[i], idx |-> i - 1]]} })

Range(n) == [i \in 1..n |-> i - 1]

\* The rows of draw_todo_list, top down, each by the storage index of the todo
\* it shows.  The terminal is taken to be tall and wide enough for every row.
Rows(q, sorted, clk) ==
    IF sorted
    THEN The({ [i \in 1..Len(q) |-> items[i][2]] : items \in {sort_todos_by_days(q, clk)} })
    ELSE Range(Len(q))

\* main: idx.
IdxOf(q, sorted, clk) ==
    IF sorted
    THEN The({ [i \in 1..Len(q) |-> items[i][2]] : items \in {sort_todos_by_days(q, clk)} })
    ELSE Range(Len(q))

----------------------------------------------------------------------------
(* The inputs of the model. *)

S_a == <<"a">>

S_b == <<"b">>

S_y == <<"y">>

\* "in <digits> days"
InDaysOf(digits) == <<"i", "n", " ">> \o digits \o <<" ", "d", "a", "y", "s">>

\* "in 1 days"
In1Days == <<"i", "n", " ", "1", " ", "d", "a", "y", "s">>

\* "2025-01-02"
Jan2 == <<"2", "0", "2", "5", "-", "0", "1", "-", "0", "2">>

\* "in 5 days"
In5Days == <<"i", "n", " ", "5", " ", "d", "a", "y", "s">>

\* "in 999999999 days": beyond the last year of datetime.
InManyDays == InDaysOf(<<"9", "9", "9", "9", "9", "9", "9", "9", "9">>)

Texts == {S_a, S_b}

\* The clock starts in the last tick of 2024-12-31.
Clock0 == Midnight(2025, 1, 1) - 1

InitFiles ==
    { FileOf("missing", JNull), FileOf("unreadable", JNull),
      FileOf("undecodable", JNull), FileOf("invalid", JNull),
      FileOf("json", JArray(<<>>)),
      FileOf("json", JArray(<<JsonOfDict(to_dict(TodoItem(S_a, FALSE, Jan2)))>>)),
      FileOf("json", JArray(<<JObject(<<Member("text", JString(S_b)),
                                        Member("done", JBool(TRUE)),
                                        Member("deadline", JString(<<>>))>>)>>)),
      FileOf("json", JArray(<<JObject(<<Member("text", JString(S_a))>>)>>)),
      FileOf("json", JArray(<<JNumber(<<"1">>)>>)),
      FileOf("json", JNumber(<<"5">>)),
      FileOf("json", JObject(<<>>)) }

Done(op, arg) == [op |-> op, arg |-> arg, n0 |-> Len(todos), c0 |-> cursor_pos]

----------------------------------------------------------------------------
(* The store on its own: a TodoList is constructed and its methods are     *)
(* called with any arguments.                                              *)

\* The deadline argument of add and edit: absent, empty or a string.
DeadlineArgs == {None, <<>>, In1Days}

Indices == (0 - 1)..(MaxTodos + 1)

StoreInit ==
    /\ file \in InitFiles
    /\ todos = <<>>
    /\ cursor_pos = 0
    /\ days_mode = FALSE
    /\ sorted_by_days = FALSE
    /\ frame = <<>>
    /\ idx = <<>>
    /\ now = Clock0
    /\ pc = "start"
    /\ result = <<>>
    /\ last = [op |-> "none", arg |-> <<>>, n0 |-> 0, c0 |-> 0]
    /\ built = FALSE

StoreFrame == UNCHANGED <<days_mode, sorted_by_days, frame, idx, now, result>>

Construct ==
    /\ pc = "start"
    /\ \E self \in {NewTodoList(file)} :
          /\ Becomes(self)
          /\ pc' = IF self.raised = "none" THEN "ready" ELSE "load_raised"
          /\ built' = (self.raised = "none" /\ self.todos = <<>>)
    /\ last' = Done("construct", <<>>)
    /\ StoreFrame

OpAdd ==
    /\ pc = "ready"
    /\ Len(todos) < MaxTodos
    /\ \E text \in Texts, deadline \in DeadlineArgs :
          /\ Becomes(add(Self, text, deadline))
          /\ last' = Done("add", <<text, deadline>>)
    /\ UNCHANGED <<pc, built>>
    /\ StoreFrame

OpToggle ==
    /\ pc = "ready"
    /\ \E index \in Indices :
          /\ Becomes(toggle(Self, index))
          /\ last' = Done("toggle", <<index>>)
    /\ UNCHANGED <<pc, built>>
    /\ StoreFrame

OpDelete ==
    /\ pc = "ready"
    /\ \E index \in Indices :
          /\ Becomes(delete(Self, index))
          /\ last' = Done("delete", <<index>>)
    /\ UNCHANGED <<pc, built>>
    /\ StoreFrame

OpEdit ==
    /\ pc = "ready"
    /\ \E index \in Indices, new_text \in Texts, new_deadline \in DeadlineArgs :
          /\ Becomes(edit(Self, index, new_text, new_deadline))
          /\ last' = Done("edit", <<index, new_text, new_deadline>>)
    /\ UNCHANGED <<pc, built>>
    /\ StoreFrame

OpMoveUp ==
    /\ pc = "ready"
    /\ Becomes(move_up(Self))
    /\ last' = Done("move_up", <<>>)
    /\ UNCHANGED <<pc, built>>
    /\ StoreFrame

OpMoveDown ==
    /\ pc = "ready"
    /\ Becomes(move_down(Self))
    /\ last' = Done("move_down", <<>>)
    /\ UNCHANGED <<pc, built>>
    /\ StoreFrame

\* save() followed by a fresh load(): a new TodoList is constructed from the file
\* that the old one has just written.
Reload ==
    /\ pc = "ready"
    /\ \E self \in {NewTodoList(save(Self).file)} :
          /\ Becomes(self)
          /\ pc' = IF self.raised = "none" THEN "ready" ELSE "load_raised"
    /\ last' = Done("reload", <<>>)
    /\ built' = FALSE
    /\ StoreFrame

StoreNext ==
    \/ Construct
    \/ OpAdd
    \/ OpToggle
    \/ OpDelete
    \/ OpEdit
    \/ OpMoveUp
    \/ OpMoveDown
    \/ Reload

SpecStore == StoreInit /\ [][StoreNext]_vars

----------------------------------------------------------------------------
(* Claims about the store. *)

\* C2: in every state reachable from a freshly constructed TodoList by add,
\* toggle, delete, edit, move_up and move_down with any indices, the cursor
\* satisfies 0 <= cursor < max(1, len(todos)).
C2_CursorInRange ==
    0 <= cursor_pos /\ cursor_pos < Max(1, Len(todos))

\* An in-bounds delete with the cursor on the last row, which the clamp moved.
C2_Witness ==
    /\ last.op = "delete"
    /\ last.n0 >= 2
    /\ last.c0 = last.n0 - 1
    /\ Len(todos) = last.n0 - 1
    /\ cursor_pos = last.c0 - 1

\* C4: for a list built from an empty store by add, edit, toggle and delete,
\* save() followed by a fresh load() yields the same sequence of tasks.
C4_RoundTrip ==
    [][(pc = "ready" /\ built /\ last'.op = "reload")
         => (pc' = "ready" /\ todos' = todos)]_vars

\* C8: toggle, delete and edit with an index outside 0 <= index < len(todos)
\* leave the tasks, the cursor and the file unchanged and raise nothing.
C8_OutOfRangeNoOp ==
    [][(pc = "ready" /\ last'.op \in {"toggle", "delete", "edit"}
          /\ ~InBounds(Self, last'.arg[1]))
         => (pc' = "ready" /\ UNCHANGED <<todos, cursor_pos, file>>)]_vars

\* A negative index was passed to toggle on a list that is not empty.
C8_Witness ==
    /\ pc = "ready"
    /\ last.op = "toggle"
    /\ last.arg[1] < 0
    /\ last.n0 >= 1
    /\ Len(todos) = last.n0

\* C9: an in-bounds delete(i) on a list of length N leaves N - 1 tasks, those
\* after i shifted down by one, and the cursor at max(0, min(old cursor, N - 2)).
C9_DeleteShiftsAndClamps ==
    [][(pc = "ready" /\ last'.op = "delete" /\ InBounds(Self, last'.arg[1]))
         => LET i == last'.arg[1]
                N == Len(todos)
            IN  /\ Len(todos') = N - 1
                /\ \A k \in 0..(N - 2) :
                      todos'[k + 1] = IF k < i THEN todos[k + 1] ELSE todos[k + 2]
                /\ cursor_pos' = Max(0, Min(cursor_pos, N - 2))]_vars

\* A task that is not the last was deleted with the cursor on the last row.
C9_Witness ==
    /\ last.op = "delete"
    /\ 0 <= last.arg[1]
    /\ last.arg[1] < last.n0 - 1
    /\ last.c0 = last.n0 - 1
    /\ Len(todos) = last.n0 - 1
    /\ cursor_pos = last.n0 - 2

\* C10: constructing the store when the file is missing, truncated or corrupt
\* (any read or parse failure) gives an empty list with cursor 0 and raises nothing.
C10_FailedLoadGivesEmpty ==
    (last.op = "construct" /\ file.kind # "json")
        => (pc = "ready" /\ todos = <<>> /\ cursor_pos = 0)

----------------------------------------------------------------------------
(* main: the input loop.  The program waits in getch with a frame on the   *)
(* screen and idx computed; a key is dispatched and the next frame drawn.  *)
(* Between the draw and the computation of idx the screen is refreshed,    *)
(* which can take any time, and at getch the program waits for the user:   *)
(* the clock may advance at both places.                                   *)

\* What the popups can return: the text typed, or "" after escape.
TypedDeadlines == {<<>>, In1Days, Jan2}

Init ==
    /\ file \in InitFiles
    /\ todos = <<>>
    /\ cursor_pos = 0
    /\ days_mode = FALSE
    /\ sorted_by_days = FALSE
    /\ frame = <<>>
    /\ idx = <<>>
    /\ now = Clock0
    /\ pc = "start"
    /\ result = <<>>
    /\ last = [op |-> "none", arg |-> <<>>, n0 |-> 0, c0 |-> 0]
    /\ built = FALSE

\* draw_todo_list at the top of the loop: the frame, or the exception.
Draw(q, sorted) ==
    IF ParseRaises(q, now)
    THEN pc' = "loop_raised" /\ frame' = frame
    ELSE pc' = "idx" /\ frame' = Rows(q, sorted, now)

\* main up to the first draw.
Start ==
    /\ pc = "start"
    /\ \E self \in {NewTodoList(file)} :
          /\ Becomes(self)
          /\ IF self.raised = "none"
             THEN Draw(self.todos, sorted_by_days)
             ELSE pc' = "load_raised" /\ frame' = frame
    /\ last' = Done("start", <<>>)
    /\ UNCHANGED <<days_mode, sorted_by_days, idx, now, result, built>>

ComputeIdx ==
    /\ pc = "idx"
    /\ IF sorted_by_days /\ ParseRaises(todos, now)
       THEN pc' = "loop_raised" /\ idx' = idx
       ELSE pc' = "getch" /\ idx' = IdxOf(todos, sorted_by_days, now)
    /\ UNCHANGED <<file, todos, cursor_pos, days_mode, sorted_by_days, frame, now,
                   result, last, built>>

Tick ==
    /\ pc \in {"idx", "getch"}
    /\ now < Clock0 + MaxNow
    /\ now' = now + 1
    /\ UNCHANGED <<file, todos, cursor_pos, days_mode, sorted_by_days, frame, idx, pc,
                   result, last, built>>

\* The rest of an iteration after the dispatch of a key, and the next draw.
AfterKey(after, dm, sd, arg) ==
    \E self \in {after} :
        /\ Becomes(self)
        /\ days_mode' = dm
        /\ sorted_by_days' = sd
        /\ Draw(self.todos, sd)
        /\ last' = Done("key", arg)
        /\ UNCHANGED <<idx, now, result, built>>

\* idx[cursor_pos] raises IndexError, which nothing catches.
IndexError(arg) ==
    /\ pc' = "loop_raised"
    /\ last' = Done("key", arg)
    /\ UNCHANGED <<file, todos, cursor_pos, days_mode, sorted_by_days, frame, idx, now,
                   result, built>>

Subscriptable == cursor_pos < Len(idx)

AtCursor == idx[cursor_pos + 1]

OrNone(s) == IF Truthy(s) THEN s ELSE None

KeyJ ==
    /\ pc = "getch"
    /\ AfterKey(move_down(Self), days_mode, sorted_by_days, <<"j">>)

KeyK ==
    /\ pc = "getch"
    /\ AfterKey(move_up(Self), days_mode, sorted_by_days, <<"k">>)

KeyX ==
    /\ pc = "getch"
    /\ IF Subscriptable
       THEN AfterKey(toggle(Self, AtCursor), days_mode, sorted_by_days, <<"x">>)
       ELSE IndexError(<<"x">>)

KeyD ==
    /\ pc = "getch"
    /\ \E en \in {S_y, <<"n">>, <<>>} :
          IF en # S_y THEN AfterKey(Self, days_mode, sorted_by_days, <<"d", en>>)
          ELSE IF Subscriptable
          THEN AfterKey(delete(Self, AtCursor), days_mode, sorted_by_days, <<"d", en>>)
          ELSE IndexError(<<"d", en>>)

KeyA ==
    /\ pc = "getch"
    /\ \E text \in Texts \cup {<<>>} :
          IF Truthy(text)
          THEN /\ Len(todos) < MaxTodos
               /\ \E deadline \in TypedDeadlines :
                     AfterKey(add(Self, text, OrNone(deadline)), days_mode, sorted_by_days,
                              <<"a", text, deadline>>)
          ELSE AfterKey(Self, days_mode, sorted_by_days, <<"a", text>>)

KeyE ==
    /\ pc = "getch"
    /\ IF todos = <<>> THEN AfterKey(Self, days_mode, sorted_by_days, <<"e">>)
       ELSE IF ~Subscriptable THEN IndexError(<<"e">>)
       ELSE LET current == todos[AtCursor + 1]
                current_deadline == IF Truthy(current.deadline) THEN current.deadline ELSE <<>>
            IN  \E new_text \in Texts \cup {current.text},
                   new_deadline \in TypedDeadlines \cup {current_deadline} :
                    IF new_text # current.text \/ new_deadline # current_deadline
                    THEN AfterKey(edit(Self, AtCursor, new_text, OrNone(new_deadline)),
                                  days_mode, sorted_by_days, <<"e", new_text, new_deadline>>)
                    ELSE AfterKey(Self, days_mode, sorted_by_days,
                                  <<"e", new_text, new_deadline>>)

KeyColon ==
    /\ pc = "getch"
    /\ \E cmd \in {<<"w">>, <<"q">>, <<>>} :
          IF cmd = <<"w">> THEN AfterKey(save(Self), days_mode, sorted_by_days, <<":", cmd>>)
          ELSE IF cmd = <<"q">>
          THEN /\ pc' = "exited"
               /\ last' = Done("key", <<":", cmd>>)
               /\ UNCHANGED <<file, todos, cursor_pos, days_mode, sorted_by_days, frame,
                              idx, now, result, built>>
          ELSE AfterKey(Self, days_mode, sorted_by_days, <<":", cmd>>)

KeyH ==
    /\ pc = "getch"
    /\ AfterKey(Self, days_mode, sorted_by_days, <<"h">>)

KeyT ==
    /\ pc = "getch"
    /\ AfterKey(Self, ~days_mode, sorted_by_days, <<"t">>)

KeyS ==
    /\ pc = "getch"
    /\ AfterKey(Self, days_mode, ~sorted_by_days, <<"s">>)

KeyEsc ==
    /\ pc = "getch"
    /\ AfterKey(Self, days_mode, sorted_by_days, <<"ESC">>)

KeyOther ==
    /\ pc = "getch"
    /\ AfterKey(Self, days_mode, sorted_by_days, <<"other">>)

Next ==
    \/ Start
    \/ ComputeIdx
    \/ Tick
    \/ KeyJ
    \/ KeyK
    \/ KeyX
    \/ KeyD
    \/ KeyA
    \/ KeyE
    \/ KeyColon
    \/ KeyH
    \/ KeyT
    \/ KeyS
    \/ KeyEsc
    \/ KeyOther

Spec == Init /\ [][Next]_vars

----------------------------------------------------------------------------
(* Claims about the input loop. *)

\* The storage index of the task that the frame on the screen shows on the
\* cursor row.
C1_Shown == frame[cursor_pos + 1]

C1_OthersKept ==
    /\ Len(todos') = Len(todos)
    /\ \A k \in 0..(Len(todos) - 1) : k # C1_Shown => todos'[k + 1] = todos[k + 1]

\* C1: with a list that is not empty, in either sort mode, the keys x, d
\* (confirmed with "y") and e act on exactly the task that the frame drawn just
\* before the key shows on the cursor row: x flips only its done flag, d removes
\* only it, e rewrites only its text and deadline, and every other task keeps
\* its fields and its place.
C1_ActsOnShownTask ==
    [][(pc = "getch" /\ pc' # "getch" /\ todos # <<>>)
         => /\ last'.arg = <<"x">>
                => /\ C1_OthersKept
                   /\ todos'[C1_Shown + 1] =
                          [todos[C1_Shown + 1] EXCEPT !.done = ~todos[C1_Shown + 1].done]
            /\ last'.arg = <<"d", S_y>>
                => /\ Len(todos') = Len(todos) - 1
                   /\ \A k \in 0..(Len(todos) - 2) :
                         todos'[k + 1] = IF k < C1_Shown THEN todos[k + 1] ELSE todos[k + 2]
            /\ last'.arg[1] = "e"
                => /\ C1_OthersKept
                   /\ todos'[C1_Shown + 1].text = last'.arg[2]
                   /\ todos'[C1_Shown + 1].done = todos[C1_Shown + 1].done]_vars

\* C3: the loop ends only when the command popup opened by ':' returns "q".
C3_EndsOnlyOnQuit ==
    pc \in {"exited", "loop_raised"} => (last.op = "key" /\ last.arg = <<":", <<"q">>>>)

\* The contents that json.dump writes for a list of tasks, in storage order.
C5_Serialised(q) ==
    FileOf("json",
           JArray([i \in 1..Len(q) |->
                     JObject(<<Member("text", JString(q[i].text)),
                               Member("done", JBool(q[i].done)),
                               Member("deadline", IF q[i].deadline = None THEN JNull
                                                  ELSE JString(q[i].deadline))>>)]))

\* C5: after every mutation of the store that takes effect, in either sort
\* mode, the file holds the serialisation of the tasks in memory, in storage
\* order, written whole by the same operation.
C5_SavedAfterMutation ==
    [][(pc = "getch" /\ todos' # todos) => file' = C5_Serialised(todos')]_vars

\* In sorted mode, with a frame whose order is not the storage order, x has
\* toggled a task and the file holds the tasks in storage order.
C5_Witness ==
    /\ last.op = "key"
    /\ last.arg = <<"x">>
    /\ sorted_by_days
    /\ frame = <<1, 0>>
    /\ file = C5_Serialised(todos)

----------------------------------------------------------------------------
(* sort_todos_by_days on its own: the projection of any list of tasks at   *)
(* any instant.                                                            *)

\* Deadlines as stored: none, relative, absolute, and one that does not parse.
SortDeadlines == {None, In1Days, In5Days, Jan2, S_b, InManyDays}

SortTasks == {TodoItem(S_a, done, deadline) : done \in BOOLEAN, deadline \in SortDeadlines}

SortLists == UNION {[1..n -> SortTasks] : n \in 0..MaxSortLen}

SortInit ==
    /\ todos \in SortLists
    /\ now \in Clock0..(Clock0 + MaxNow)
    /\ file = FileOf("missing", JNull)
    /\ cursor_pos = 0
    /\ days_mode = FALSE
    /\ sorted_by_days = TRUE
    /\ frame = <<>>
    /\ idx = <<>>
    /\ pc = "start"
    /\ result = <<>>
    /\ last = [op |-> "none", arg |-> <<>>, n0 |-> 0, c0 |-> 0]
    /\ built = FALSE

Project ==
    /\ pc = "start"
    /\ IF ParseRaises(todos, now)
       THEN pc' = "sort_raised" /\ result' = result
       ELSE pc' = "sorted" /\ result' = sort_todos_by_days(todos, now)
    /\ last' = Done("sort", <<>>)
    /\ UNCHANGED <<file, todos, cursor_pos, days_mode, sorted_by_days, frame, idx, now,
                   built>>

SortNext == Project

SpecSort == SortInit /\ [][SortNext]_vars

\* The band of a task: 2 with a deadline that parses and not done, 0 with a
\* deadline that parses and done, 1 without a deadline that parses.
C6_Timed(todo) ==
    Truthy(todo.deadline) /\ parse_deadline(todo.deadline, now).kind = "datetime"

C6_Band(todo) == IF ~C6_Timed(todo) THEN 1 ELSE IF todo.done THEN 0 ELSE 2

\* The whole days from the instant of the sort to the deadline of a timed task.
C6_Offset(todo) == (parse_deadline(todo.deadline, now).t - now) \div TicksPerDay

C6_SameKey(a, b) ==
    /\ C6_Band(a) = C6_Band(b)
    /\ C6_Timed(a) => C6_Offset(a) = C6_Offset(b)

\* C6: the projection holds every task once with its storage index, ordered by
\* descending band, then by ascending whole-day offset within a band, and tasks
\* with equal band and offset stay in storage order.
C6_ProjectionOrder ==
    pc = "sorted" =>
        /\ Len(result) = Len(todos)
        /\ {result[i][2] : i \in 1..Len(result)} = 0..(Len(todos) - 1)
        /\ \A i \in 1..Len(result) : result[i][1] = todos[result[i][2] + 1]
        /\ \A i, j \in 1..Len(result) :
              i < j =>
                 /\ C6_Band(result[i][1]) >= C6_Band(result[j][1])
                 /\ (C6_Band(result[i][1]) = C6_Band(result[j][1]) /\ C6_Timed(result[i][1]))
                       => C6_Offset(result[i][1]) <= C6_Offset(result[j][1])
                 /\ C6_SameKey(result[i][1], result[j][1]) => result[i][2] < result[j][2]

\* A done timed task stored first went to the bottom, below two equal tasks that
\* kept their storage order.
C6_Witness ==
    /\ pc = "sorted"
    /\ Len(todos) = 3
    /\ C6_Band(todos[1]) = 0
    /\ todos[2] = todos[3]
    /\ C6_Band(todos[2]) = 2
    /\ <<result[1][2], result[2][2], result[3][2]>> = <<1, 2, 0>>

\* [A(done, due in 1 day), B(not done, due in 5 days), C(no deadline),
\*  D(not done, due in 1 day)]
C7_List ==
    <<TodoItem(S_a, TRUE, In1Days), TodoItem(S_a, FALSE, In5Days),
      TodoItem(S_a, FALSE, None), TodoItem(S_a, FALSE, In1Days)>>

C7_Order == [i \in 1..Len(result) |-> result[i][2]]

\* C7 as stated: the projection of [A, B, C, D] is [D, B, A, C].
C7_OrderDBAC ==
    (pc = "sorted" /\ todos = C7_List) => C7_Order = <<3, 1, 0, 2>>

\* C7: the projection of [A(done, due in 1 day), B(not done, due in 5 days),
\* C(no deadline), D(not done, due in 1 day)] is [D, B, C, A].
C7_OrderDBCA ==
    (pc = "sorted" /\ todos = C7_List) => C7_Order = <<3, 1, 2, 0>>

C7_Witness == pc = "sorted" /\ todos = C7_List /\ Len(result) = Len(C7_List)

----------------------------------------------------------------------------
(* More claims about the input loop. *)

\* A step of the loop that dispatches the key k.
KeyStep(k) == pc = "getch" /\ pc' # "getch" /\ last'.arg[1] = k

\* C11 as stated: every 'a' key press grows the task count by exactly one.
C11_EveryAddGrows ==
    [][KeyStep("a") => Len(todos') = Len(todos) + 1]_vars

\* C11: an 'a' key press whose text popup returns a text that is not empty
\* appends one task with done = false, that text and the deadline of the second
\* popup (absent when empty), leaving the other tasks and the cursor unchanged;
\* when the text popup returns the empty text nothing is added.
C11_AddAppendsOne ==
    [][KeyStep("a") =>
         IF last'.arg[2] # <<>>
         THEN /\ Len(todos') = Len(todos) + 1
              /\ SubSeq(todos', 1, Len(todos)) = todos
              /\ todos'[Len(todos')] =
                    [text |-> last'.arg[2], done |-> FALSE,
                     deadline |-> IF last'.arg[3] = <<>> THEN None ELSE last'.arg[3]]
              /\ cursor_pos' = cursor_pos
         ELSE UNCHANGED <<todos, cursor_pos, file>>]_vars

\* A task was added after an existing one, with an empty deadline popup.
C11_Witness ==
    /\ last.op = "key"
    /\ last.arg[1] = "a"
    /\ Len(last.arg) = 3
    /\ last.arg[3] = <<>>
    /\ last.n0 >= 1
    /\ Len(todos) = last.n0 + 1
    /\ todos[Len(todos)].deadline = None

\* C12: on key 'e' with a list that is not empty, edit is called exactly when
\* the text popup result differs from the task's text or the deadline popup
\* result differs from its deadline (an absent deadline compared as the empty
\* string): then the task gets the new text and deadline, keeps its done flag,
\* and the file is rewritten; otherwise the tasks and the file are unchanged.
C12_EditOnlyOnChange ==
    [][(KeyStep("e") /\ todos # <<>>) =>
         LET i == idx[cursor_pos + 1]
             current == todos[i + 1]
             current_deadline == IF current.deadline = None THEN <<>> ELSE current.deadline
             new_text == last'.arg[2]
             new_deadline == last'.arg[3]
         IN  IF new_text # current.text \/ new_deadline # current_deadline
             THEN /\ todos' = [todos EXCEPT ![i + 1] =
                                 [text |-> new_text, done |-> current.done,
                                  deadline |-> IF new_deadline = <<>> THEN None
                                               ELSE new_deadline]]
                  /\ file' = C5_Serialised(todos')
             ELSE UNCHANGED <<todos, file>>]_vars

\* Both popups of an 'e' returned the current values while the file differed
\* from what a save would have written: no save happened.
C12_Witness ==
    /\ last.op = "key"
    /\ last.arg[1] = "e"
    /\ last.n0 >= 1
    /\ Len(todos) = last.n0
    /\ file.kind = "json"
    /\ file # C5_Serialised(todos)

\* C13: sort mode never reorders storage.  Every step of the loop leaves the
\* task sequence as it is, appends one task at its end, removes one task, or
\* changes one task in place, so the surviving tasks stay in the order in which
\* they were added; and the file, whenever it is written, holds the tasks in
\* that storage order.
C13_StorageOrderKept ==
    [][pc = "getch" =>
         /\ \/ todos' = todos
            \/ /\ Len(todos') = Len(todos) + 1
               /\ SubSeq(todos', 1, Len(todos)) = todos
            \/ /\ Len(todos') = Len(todos) - 1
               /\ \E i \in 1..Len(todos) :
                     todos' = SubSeq(todos, 1, i - 1) \o SubSeq(todos, i + 1, Len(todos))
            \/ /\ Len(todos') = Len(todos)
               /\ \E i \in 1..Len(todos) :
                     \A k \in 1..Len(todos) : k # i => todos'[k] = todos[k]
         /\ file' = file \/ file' = C5_Serialised(todos')]_vars

\* Sort mode has just been switched on and the display order is not the storage
\* order, while the file holds the tasks in storage order.
C13_Witness ==
    /\ last.op = "key"
    /\ last.arg = <<"s">>
    /\ sorted_by_days
    /\ Len(todos) = 2
    /\ frame = <<1, 0>>
    /\ file = C5_Serialised(todos)

----------------------------------------------------------------------------
(* parse_deadline and get_deadline_color on their own: one stored deadline *)
(* string is parsed and classified again and again while the clock runs.   *)

DigitChar(n) == CHOOSE c \in Digits : DigitVal(c) = n

\* str(n) for 0 <= n < 100.
NatStr(n) == IF n < 10 THEN <<DigitChar(n)>> ELSE <<DigitChar(n \div 10), DigitChar(n % 10)>>

\* "2025-01-DD"
JanDay(d) ==
    <<"2", "0", "2", "5", "-", "0", "1", "-", DigitChar(d \div 10), DigitChar(d % 10)>>

InPrefix == <<"i", "n", " ">>

DaysSuffix == <<" ", "d", "a", "y", "s">>

\* "in N days"
InDays(n) == InPrefix \o NatStr(n) \o DaysSuffix

\* "01-02", "02-29", "2025-1-2", "in -1 days", "in 3", "in 3 weeks", "in b days"
OtherDeadlines ==
    { <<"0", "1", "-", "0", "2">>,
      <<"0", "2", "-", "2", "9">>,
      <<"2", "0", "2", "5", "-", "1", "-", "2">>,
      InPrefix \o <<"-", "1">> \o DaysSuffix,
      InPrefix \o <<"3">>,
      InPrefix \o <<"3", " ", "w", "e", "e", "k", "s">>,
      InPrefix \o S_b \o DaysSuffix,
      S_b,
      <<>> }

DeadlineStrings ==
    {JanDay(d) : d \in 1..MaxJanDay} \cup {InDays(n) : n \in 0..MaxInDays} \cup OtherDeadlines

DeadlineInit ==
    /\ todos \in {<<TodoItem(S_a, FALSE, s)>> : s \in DeadlineStrings \ {<<>>}}
              \cup {<<[text |-> S_a, done |-> FALSE, deadline |-> <<>>]>>}
    /\ now = Clock0
    /\ file = FileOf("missing", JNull)
    /\ cursor_pos = 0
    /\ days_mode = FALSE
    /\ sorted_by_days = FALSE
    /\ frame = <<>>
    /\ idx = <<>>
    /\ pc = "start"
    /\ result = <<>>
    /\ last = [op |-> "none", arg |-> <<>>, n0 |-> 0, c0 |-> 0]
    /\ built = FALSE

DeadlineFrame ==
    UNCHANGED <<file, todos, cursor_pos, days_mode, sorted_by_days, frame, idx, built>>

\* parse_deadline(s) at the instant now.
Parse ==
    /\ result' = [op |-> "parse", clk |-> now, later |-> now, color |-> "",
                  parsed |-> parse_deadline(todos[1].deadline, now)]
    /\ pc' = "parsed"
    /\ last' = Done("parse", <<>>)
    /\ now' = now
    /\ DeadlineFrame

\* get_deadline_color(s): the deadline is parsed at the instant now, and the
\* clock is read again afterwards.
Classify ==
    \E later \in {now, now + 1} :
        /\ later <= Clock0 + MaxNow
        /\ result' = [op |-> "classify", clk |-> now, later |-> later,
                      color |-> get_deadline_color(todos[1].deadline, now, later),
                      parsed |-> parse_deadline(todos[1].deadline, now)]
        /\ pc' = "classified"
        /\ last' = Done("classify", <<>>)
        /\ now' = later
        /\ DeadlineFrame

\* Time passes between renders and sessions.
ClockTick ==
    /\ now < Clock0 + MaxNow
    /\ now' = now + 1
    /\ UNCHANGED <<pc, result, last>>
    /\ DeadlineFrame

DeadlineNext ==
    \/ Parse
    \/ Classify
    \/ ClockTick

SpecDeadline == DeadlineInit /\ [][DeadlineNext]_vars

\* The whole-day difference that a classification computed.
C14_Days(r) == (r.parsed.t - r.later) \div TicksPerDay

\* C14: for a task whose stored deadline string parses and is left unchanged,
\* the whole-day difference computed at a render is smaller than the one
\* computed at a render at least a day earlier, so that the tier moves toward
\* Urgent and Overdue as the clock advances.
C14_DifferenceDecreases ==
    [][(/\ result # <<>>
        /\ result.op = "classify" /\ result'.op = "classify"
        /\ result.parsed.kind = "datetime" /\ result'.parsed.kind = "datetime"
        /\ result'.later >= result.later + TicksPerDay)
         => C14_Days(result') < C14_Days(result)]_vars

\* C15: the classifier maps the whole-day difference d between the parsed
\* deadline and the clock to a tier: d < 0 Overdue (red), 1 <= d <= 2 Urgent
\* (yellow), 3 <= d <= 7 Soon (cyan), d > 7 Distant (green); a deadline that is
\* absent or does not parse gives the None tier (white).
C15_TierOfDays ==
    (pc = "classified" /\ result.parsed.kind # "OverflowError") =>
        IF result.parsed.kind = "None" THEN result.color = "COLOR_WHITE"
        ELSE /\ C14_Days(result) < 0 => result.color = "COLOR_RED"
             /\ (1 <= C14_Days(result) /\ C14_Days(result) <= 2)
                    => result.color = "COLOR_YELLOW"
             /\ (3 <= C14_Days(result) /\ C14_Days(result) <= 7)
                    => result.color = "COLOR_CYAN"
             /\ C14_Days(result) > 7 => result.color = "COLOR_GREEN"

\* A deadline 10 whole days out was classified Distant.
C15_Witness ==
    /\ pc = "classified"
    /\ result.parsed.kind = "datetime"
    /\ C14_Days(result) = 10
    /\ result.color = "COLOR_GREEN"

C16_DigitsAt(s, a, b) == \A i \in a..b : s[i] \in Digits

\* YYYY-MM-DD naming a day of the calendar.
C16_IsYMD(s) ==
    /\ Len(s) = 10
    /\ C16_DigitsAt(s, 1, 4) /\ s[5] = "-" /\ C16_DigitsAt(s, 6, 7) /\ s[8] = "-"
    /\ C16_DigitsAt(s, 9, 10)
    /\ LET y == ToNat(SubSeq(s, 1, 4))
           m == ToNat(SubSeq(s, 6, 7))
           d == ToNat(SubSeq(s, 9, 10))
       IN  y >= 1 /\ m \in 1..12 /\ d >= 1 /\ d <= DaysInMonth(y, m)

\* MM-DD naming a day of the current year.
C16_IsMD(s, clk) ==
    /\ Len(s) = 5
    /\ C16_DigitsAt(s, 1, 2) /\ s[3] = "-" /\ C16_DigitsAt(s, 4, 5)
    /\ LET m == ToNat(SubSeq(s, 1, 2))
           d == ToNat(SubSeq(s, 4, 5))
       IN  m \in 1..12 /\ d >= 1 /\ d <= DaysInMonth(YearOf(clk), m)

\* "in <N> days" with N a non-negative integer.
C16_IsInDays(s) ==
    /\ Len(s) > Len(InPrefix) + Len(DaysSuffix)
    /\ SubSeq(s, 1, Len(InPrefix)) = InPrefix
    /\ SubSeq(s, Len(s) - Len(DaysSuffix) + 1, Len(s)) = DaysSuffix
    /\ C16_DigitsAt(s, Len(InPrefix) + 1, Len(s) - Len(DaysSuffix))

\* C16: parse(s) returns a timestamp exactly when s matches one of the three
\* grammars (YYYY-MM-DD; MM-DD with the current year; "in <N> days" with N a
\* non-negative integer, giving now + N days), and None for every other string.
C16_ParsesExactlyGrammar ==
    pc = "parsed" =>
        LET s == todos[1].deadline IN
        /\ (result.parsed.kind = "datetime")
              <=> (C16_IsYMD(s) \/ C16_IsMD(s, result.clk) \/ C16_IsInDays(s))
        /\ C16_IsInDays(s) =>
              result.parsed.t = result.clk
                  + ToNat(SubSeq(s, Len(InPrefix) + 1, Len(s) - Len(DaysSuffix))) * TicksPerDay

----------------------------------------------------------------------------
(* edit_popup on its own.  result holds the locals initial_text, text and  *)
(* pos, the value returned, and the last key read.                         *)

\* The printable characters typed.
PopupChars == {"a", "b"}

InitialTexts == {<<>>, S_a, <<"a", "b">>}

\* popup.addstr(1, 1, text) returns ERR when the text reaches the last cell of
\* the window, popup.move(1, pos + 1) when the column is not in the window.
AddstrRaises(text) == Len(text) >= 2 * PopupW - 1

MoveRaises(pos) == pos + 1 >= PopupW

\* Lines 327-330 at the top of the loop, then getch.
PopupDraw(initial_text, text, pos, key) ==
    /\ result' = [initial_text |-> initial_text, text |-> text, pos |-> pos,
                  ret |-> None, key |-> key]
    /\ pc' = IF AddstrRaises(text) \/ MoveRaises(pos) THEN "popup_raised" ELSE "popup"

PopupFrame ==
    UNCHANGED <<file, todos, cursor_pos, days_mode, sorted_by_days, frame, idx, now, built>>

PopupInit ==
    /\ todos = <<>>
    /\ now = Clock0
    /\ file = FileOf("missing", JNull)
    /\ cursor_pos = 0
    /\ days_mode = FALSE
    /\ sorted_by_days = FALSE
    /\ frame = <<>>
    /\ idx = <<>>
    /\ pc = "start"
    /\ result = <<>>
    /\ last = [op |-> "none", arg |-> <<>>, n0 |-> 0, c0 |-> 0]
    /\ built = FALSE

\* edit_popup(stdscr, title, initial_text) up to the first getch.
PopupOpen ==
    /\ pc = "start"
    /\ \E initial_text \in InitialTexts :
          PopupDraw(initial_text, initial_text, Len(initial_text), "none")
    /\ last' = Done("open", <<>>)
    /\ PopupFrame

PopupPrintable ==
    /\ pc = "popup"
    /\ \E c \in PopupChars :
          PopupDraw(result.initial_text,
                    SubSeq(result.text, 1, result.pos) \o <<c>>
                        \o SubSeq(result.text, result.pos + 1, Len(result.text)),
                    result.pos + 1, "printable")
    /\ last' = Done("printable", <<>>)
    /\ PopupFrame

PopupBackspace ==
    /\ pc = "popup"
    /\ IF result.pos > 0
       THEN PopupDraw(result.initial_text,
                      SubSeq(result.text, 1, result.pos - 1)
                          \o SubSeq(result.text, result.pos + 1, Len(result.text)),
                      result.pos - 1, "backspace")
       ELSE PopupDraw(result.initial_text, result.text, result.pos, "backspace")
    /\ last' = Done("backspace", <<>>)
    /\ PopupFrame

PopupLeft ==
    /\ pc = "popup"
    /\ PopupDraw(result.initial_text, result.text, Max(0, result.pos - 1), "left")
    /\ last' = Done("left", <<>>)
    /\ PopupFrame

PopupRight ==
    /\ pc = "popup"
    /\ PopupDraw(result.initial_text, result.text,
                 IF Len(result.text) <= result.pos + 1 THEN Len(result.text)
                 ELSE result.pos + 1, "right")
    /\ last' = Done("right", <<>>)
    /\ PopupFrame

PopupEnter ==
    /\ pc = "popup"
    /\ result' = [result EXCEPT !.ret = result.text, !.key = "enter"]
    /\ pc' = "returned"
    /\ last' = Done("enter", <<>>)
    /\ PopupFrame

PopupEscape ==
    /\ pc = "popup"
    /\ result' = [result EXCEPT !.text = result.initial_text,
                                !.ret = result.initial_text, !.key = "escape"]
    /\ pc' = "returned"
    /\ last' = Done("escape", <<>>)
    /\ PopupFrame

PopupNext ==
    \/ PopupOpen
    \/ PopupPrintable
    \/ PopupBackspace
    \/ PopupLeft
    \/ PopupRight
    \/ PopupEnter
    \/ PopupEscape

SpecPopup == PopupInit /\ [][PopupNext]_vars

\* C17: in the popup, for any initial text and any sequence of printable
\* characters, backspaces and arrows, the popup goes on reading keys with the
\* edit position within 0..len(buffer); Enter returns the current buffer and
\* Escape returns the initial text.
C17_PopupContract ==
    [][pc = "popup" =>
         /\ pc' # "popup_raised"
         /\ pc' = "popup" => (0 <= result'.pos /\ result'.pos <= Len(result'.text))
         /\ last'.op = "enter" => (pc' = "returned" /\ result'.ret = result.text)
         /\ last'.op = "escape" => (pc' = "returned" /\ result'.ret = result.initial_text)]_vars

----------------------------------------------------------------------------
(* Claims about the keys that do not mutate the store. *)

\* C18: the keys j, k, t, s, h, Escape, an unrecognized key, ':' with a command
\* other than w or q, and d not confirmed with "y" change neither the tasks nor
\* the file; j and k change only the cursor, by at most one and without
\* wrapping; t and s flip only their own flag; Escape and unrecognized keys
\* change nothing.
C18_PassiveKeys ==
    [][(pc = "getch" /\ pc' # "getch") =>
         LET key == last'.arg[1]
             passive == \/ key \in {"j", "k", "t", "s", "h", "ESC", "other"}
                        \/ key = ":" /\ last'.arg[2] \notin {<<"w">>, <<"q">>}
                        \/ key = "d" /\ last'.arg[2] # S_y
         IN  passive =>
               /\ UNCHANGED <<todos, file>>
               /\ key = "j" =>
                     /\ cursor_pos' = IF cursor_pos < Len(todos) - 1 THEN cursor_pos + 1
                                      ELSE cursor_pos
                     /\ UNCHANGED <<days_mode, sorted_by_days>>
               /\ key = "k" =>
                     /\ cursor_pos' = IF cursor_pos > 0 THEN cursor_pos - 1 ELSE cursor_pos
                     /\ UNCHANGED <<days_mode, sorted_by_days>>
               /\ key = "t" =>
                     /\ days_mode' = ~days_mode
                     /\ UNCHANGED <<cursor_pos, sorted_by_days>>
               /\ key = "s" =>
                     /\ sorted_by_days' = ~sorted_by_days
                     /\ UNCHANGED <<cursor_pos, days_mode>>
               /\ key \in {"h", "ESC", "other", ":", "d"} =>
                     UNCHANGED <<cursor_pos, days_mode, sorted_by_days>>]_vars

\* j was pressed with the cursor on the last of two rows and the cursor stayed.
C18_Witness ==
    /\ last.op = "key"
    /\ last.arg = <<"j">>
    /\ last.n0 = 2
    /\ last.c0 = 1
    /\ cursor_pos = 1

----------------------------------------------------------------------------
(* More claims about the store. *)

\* A JSON text that is not an array of objects that have the text and done
\* fields.
C19_Malformed(data) ==
    \/ data.j # "array"
    \/ \E i \in 1..Len(data.items) :
          \/ data.items[i].j # "object"
          \/ ~(\E m \in 1..Len(data.items[i].o) : data.items[i].o[m].k = "text")
          \/ ~(\E m \in 1..Len(data.items[i].o) : data.items[i].o[m].k = "done")

\* C19: constructing the store from a file that is valid JSON but holds a
\* malformed record gives the empty task list and raises nothing.
C19_MalformedGivesEmpty ==
    (last.op = "construct" /\ file.kind = "json" /\ C19_Malformed(file.json))
        => (pc = "ready" /\ todos = <<>>)

----------------------------------------------------------------------------
(* More claims about the sort. *)

\* C20: for a list of n tasks the projection returns n pairs (task, index), the
\* indices are a permutation of 0..n-1, each pair's task is the task stored at
\* its index, and computing the projection changes neither the tasks, the
\* cursor nor the file.
C20_ProjectionIsPermutation ==
    [][pc = "start" =>
         /\ UNCHANGED <<todos, cursor_pos, file>>
         /\ pc' = "sorted" =>
               /\ Len(result') = Len(todos)
               /\ \A k \in 0..(Len(todos) - 1) :
                     Cardinality({i \in 1..Len(result') : result'[i][2] = k}) = 1
               /\ \A i \in 1..Len(result') :
                     /\ result'[i][2] \in 0..(Len(todos) - 1)
                     /\ result'[i][1] = todos[result'[i][2] + 1]]_vars

\* Three different tasks were projected in an order that is not their storage
\* order.
C20_Witness ==
    /\ pc = "sorted"
    /\ Len(todos) = 3
    /\ todos[1] # todos[2] /\ todos[2] # todos[3] /\ todos[1] # todos[3]
    /\ <<result[1][2], result[2][2], result[3][2]>> = <<2, 0, 1>>

====
